---- MODULE Spec2Model ----
(***************************************************************************)
(* Model of cocaine/tools/tools.py: the storage and node Actions, the      *)
(* fan-in handle of CrashlogViewOrRemoveAction.execute, the handle of      *)
(* AppCheckAction.execute and the two chains (AppRestartAction,            *)
(* AddApplicationToRunlistAction).                                         *)
(*                                                                         *)
(* One behaviour is one Action object: the caller's configuration is       *)
(* chosen in Init, Construct runs __init__, Execute runs execute(), and    *)
(* the remaining actions are the events the remote services deliver.       *)
(***************************************************************************)
EXTENDS Integers, Sequences, FiniteSets, TLC

\* ---------------------------------------------------------------- bounds
\* Longest list chunk storage.find delivers.
MaxEntries == 3

\* How many further instances are built from one configuration.
MaxAgain == 2

\* Most calls issued in the runs in which futures deliver further events,
\* and most further events delivered.
MaxCalls == 3
MaxExtra == 2

\* ---------------------------------------------------------------- values
\* A key that the caller did not pass at all.
Absent == "<absent>"
\* Python's None, the value of config.get(k) for a key that is not there.
None == "None"
\* An empty string passed by the caller.
Empty == ""

Falsy(v) == v \in {None, Empty}

StorageVariants ==
    {"AppListAction", "AppViewAction", "AppUploadAction", "AppRemoveAction",
     "ProfileListAction", "ProfileUploadAction", "ProfileRemoveAction",
     "ProfileViewAction", "RunlistListAction", "RunlistViewAction",
     "RunlistUploadAction", "RunlistRemoveAction",
     "AddApplicationToRunlistAction", "CrashlogListAction",
     "CrashlogViewAction", "CrashlogRemoveAction", "CrashlogRemoveAllAction"}

NodeVariants ==
    {"NodeInfoAction", "AppStartAction", "AppPauseAction", "AppRestartAction",
     "AppCheckAction"}

Variants == StorageVariants \cup NodeVariants

FanInVariants ==
    {"CrashlogViewAction", "CrashlogRemoveAction", "CrashlogRemoveAllAction"}

ChainVariants == {"AddApplicationToRunlistAction", "AppRestartAction"}

Keys == {"name", "manifest", "package", "profile", "runlist-raw", "app",
         "host", "port"}

\* The keys of **config that the variant's __init__ or execute reads.
Reads(v) ==
    CASE v \in {"AppListAction", "ProfileListAction", "RunlistListAction",
                "NodeInfoAction"} -> {}
      [] v = "AppUploadAction" -> {"name", "manifest", "package"}
      [] v = "ProfileUploadAction" -> {"name", "manifest"}
      [] v = "RunlistUploadAction" -> {"name", "manifest", "runlist-raw"}
      [] v = "AddApplicationToRunlistAction" -> {"name", "app", "profile"}
      [] v \in FanInVariants -> {"name", "manifest"}
      [] v = "AppStartAction" -> {"name", "profile"}
      [] v = "AppRestartAction" -> {"name", "profile", "host", "port"}
      [] OTHER -> {"name"}

\* The values the caller may pass for a key; 'manifest' is a file path for the
\* upload variants and the timestamp filter for the crash-log variants.
ValuesOf(v, k) ==
    CASE k = "name" -> {Absent, Empty, "app"}
      [] k = "manifest" /\ v \in FanInVariants -> {Absent, Empty, "200", "400"}
      [] k = "manifest" -> {Absent, "manifest.json"}
      [] k = "package" -> {Absent, "package.tar"}
      [] k = "profile" -> {Absent, Empty, "prof"}
      [] k = "runlist-raw" -> {Absent, "raw"}
      [] k = "app" -> {Absent, "newapp"}
      [] k = "host" -> {Absent, "localhost"}
      [] k = "port" -> {Absent, "10053"}

Configs(v) ==
    {[k \in Keys |-> IF k \notin Reads(v) THEN Absent
                      ELSE IF k = "runlist-raw" THEN r.runlist_raw ELSE r[k]] :
        r \in [name : ValuesOf(v, "name"), manifest : ValuesOf(v, "manifest"),
               package : ValuesOf(v, "package"), profile : ValuesOf(v, "profile"),
               runlist_raw : ValuesOf(v, "runlist-raw"), app : ValuesOf(v, "app"),
               host : ValuesOf(v, "host"), port : ValuesOf(v, "port")]}

\* config.get(k)
Get(c, k) == IF c[k] = Absent THEN None ELSE c[k]

\* ------------------------------------------------------------ construction
\* The fields of an object before __init__ has assigned any.
NoFields ==
    [name |-> None, manifest |-> None, package |-> None, profile |-> None,
     runlist |-> None, runlist_raw |-> None, app |-> None, timestamp |-> None,
     method |-> None, config |-> [k \in Keys |-> Absent]]

\* The required fields each __init__ tests with `if not ...: raise ValueError`.
Required(v) ==
    CASE v \in {"AppListAction", "ProfileListAction", "RunlistListAction",
                "NodeInfoAction"} -> {}
      [] v = "AppUploadAction" -> {"name", "manifest", "package"}
      [] v = "ProfileUploadAction" -> {"name", "manifest"}
      [] v = "AddApplicationToRunlistAction" -> {"name", "app", "profile"}
      [] v = "AppStartAction" -> {"name", "profile"}
      [] OTHER -> {"name"}

\* __init__ of the variant on **config: "ok", or the exception it raises.
Validate(v, c) ==
    IF \E k \in Required(v) : Falsy(Get(c, k)) THEN "ValueError"
    ELSE IF v = "RunlistUploadAction"
            /\ Falsy(Get(c, "manifest")) /\ Falsy(Get(c, "runlist-raw"))
         THEN "ValueError"
    ELSE "ok"

\* The storage method CrashlogViewOrRemoveAction is constructed with.
MethodOf(v) ==
    CASE v = "CrashlogViewAction" -> "read"
      [] v \in {"CrashlogRemoveAction", "CrashlogRemoveAllAction"} -> "remove"
      [] OTHER -> None

\* The address of the dict the caller passes as Action(service, **config).
CallerDict == "caller"

\* The addresses of the dicts the calls create, in the order they are taken.
FreshDicts == <<"kwargs1", "kwargs2", "kwargs3", "kwargs4", "kwargs5">>

\* __init__ handed the caller's dict itself as its config.
NewDictShared(h) == CallerDict

\* def __init__(self, service, **config): the call packs the keyword
\* arguments into a dict of its own, at an address no live dict has.
NewDict(h) == FreshDicts[Cardinality(DOMAIN h \ {CallerDict}) + 1]

\* The writes __init__ makes to its config dict d: CrashlogRemoveAllAction
\* sets 'manifest' to None, no other variant writes.
Kwargs(v, d) ==
    IF v = "CrashlogRemoveAllAction" THEN [d EXCEPT !["manifest"] = None] ELSE d

\* The heap after Action(service, **config) has run __init__: the keyword
\* arguments, read from the caller's dict, are in the dict at address a,
\* with the writes of __init__ made to that dict.
Called(h, v, a) == (a :> Kwargs(v, h[CallerDict])) @@ h

\* The attributes __init__ assigns.
FieldsOf(v, c) ==
    [name |-> IF "name" \in Reads(v) THEN Get(c, "name") ELSE None,
     manifest |-> IF v = "AppUploadAction" THEN Get(c, "manifest") ELSE None,
     package |-> IF v = "AppUploadAction" THEN Get(c, "package") ELSE None,
     profile |-> IF v \in {"AddApplicationToRunlistAction", "AppStartAction",
                           "AppRestartAction"}
                 THEN Get(c, "profile")
                 ELSE IF v = "ProfileUploadAction" THEN Get(c, "manifest")
                 ELSE None,
     runlist |-> IF v = "RunlistUploadAction" THEN Get(c, "manifest") ELSE None,
     runlist_raw |-> IF v = "RunlistUploadAction" THEN Get(c, "runlist-raw")
                     ELSE None,
     app |-> IF v = "AddApplicationToRunlistAction" THEN Get(c, "app") ELSE None,
     timestamp |-> IF v \in FanInVariants
                   THEN Get(Kwargs(v, c), "manifest") ELSE None,
     method |-> MethodOf(v),
     config |-> IF v \in NodeVariants THEN c ELSE [k \in Keys |-> Absent]]

\* ------------------------------------------------------------ remote calls
APPS_TAGS == "app"
RUNLISTS_TAGS == "runlist"
PROFILES_TAGS == "profile"

\* One call issued to the storage or node service, with the state of the
\* future it returned: st is "pending" until the service answers with a chunk
\* or an error, closed once the future has signalled its completion, hooked
\* when handlers were bound to the future.
Call(method, ns, key, payload, tags) ==
    [method |-> method, ns |-> ns, key |-> key, payload |-> payload,
     tags |-> tags, st |-> "pending", closed |-> FALSE, hooked |-> TRUE]

\* The states of a file handed to encodeJson / encodePackage.
JsonFileStates == {"ok", "unreadable", "corrupt"}
PackageFileStates == {"ok", "unreadable", "nottar"}

\* StorageAction.encodeJson: the packed content, or CocaineError for an
\* IOError (unreadable) or a ValueError (not json).
encodeJson(fileState) ==
    CASE fileState = "ok" -> "packed-json"
      [] fileState = "unreadable" -> "CocaineError: Unable to open file"
      [] fileState = "corrupt" -> "CocaineError: File is corrupted"

\* AppUploadAction.encodePackage: CocaineError when the file is no tar file or
\* cannot be read.
encodePackage(fileState) ==
    CASE fileState = "ok" -> "packed-tar"
      [] fileState = "nottar" -> "CocaineError: File is ot tar file"
      [] fileState = "unreadable" ->
            "CocaineError: Error occurred while reading archive file"

CocaineErrors ==
    {"CocaineError: Unable to open file", "CocaineError: File is corrupted",
     "CocaineError: File is ot tar file",
     "CocaineError: Error occurred while reading archive file"}

\* AppUploadAction.upload with the manifest written again after the package.
uploadTwice(s, manifest, package) ==
    <<Call("write", "manifests", <<s.name>>, manifest, APPS_TAGS),
      Call("write", "apps", <<s.name>>, package, APPS_TAGS),
      Call("write", "manifests", <<s.name>>, manifest, APPS_TAGS)>>

\* AppUploadAction.upload
upload(s, manifest, package) ==
    <<Call("write", "manifests", <<s.name>>, manifest, APPS_TAGS),
      Call("write", "apps", <<s.name>>, package, APPS_TAGS)>>

\* What execute() of a variant does synchronously: the exception it raises
\* ("none" when it returns) and the calls it has issued by then.
Outcome(exc, issued) == [raised |-> exc, calls |-> issued]

\* AppUploadAction.execute with the manifest written as soon as it is encoded,
\* before the package is.
AppUploadExecuteEarly(s, mf, pf) ==
    IF encodeJson(mf) \in CocaineErrors THEN Outcome(encodeJson(mf), <<>>)
    ELSE IF encodePackage(pf) \in CocaineErrors
         THEN Outcome(encodePackage(pf),
                      <<Call("write", "manifests", <<s.name>>, encodeJson(mf),
                             APPS_TAGS)>>)
    ELSE Outcome("none", upload(s, encodeJson(mf), encodePackage(pf)))

\* AppUploadAction.execute: both payloads are encoded before upload is called.
AppUploadExecute(s, mf, pf) ==
    IF encodeJson(mf) \in CocaineErrors THEN Outcome(encodeJson(mf), <<>>)
    ELSE IF encodePackage(pf) \in CocaineErrors
         THEN Outcome(encodePackage(pf), <<>>)
    ELSE Outcome("none", upload(s, encodeJson(mf), encodePackage(pf)))

\* ProfileUploadAction.execute
ProfileUploadExecute(s, mf) ==
    IF encodeJson(mf) \in CocaineErrors THEN Outcome(encodeJson(mf), <<>>)
    ELSE Outcome("none", <<Call("write", "profiles", <<s.name>>, encodeJson(mf),
                                PROFILES_TAGS)>>)

\* RunlistUploadAction.execute: the file when one was given, the raw runlist
\* (packed by msgpack.dumps) otherwise.
RunlistUploadExecute(s, mf) ==
    IF ~Falsy(s.runlist) /\ encodeJson(mf) \in CocaineErrors
    THEN Outcome(encodeJson(mf), <<>>)
    ELSE Outcome("none",
                 <<Call("write", "runlists", <<s.name>>,
                        IF ~Falsy(s.runlist) THEN encodeJson(mf) ELSE "packed-raw",
                        RUNLISTS_TAGS)>>)

\* execute() of the variants that return the service's future(s) as they are.
DirectExecute(v, s, mf, pf) ==
    CASE v = "AppListAction" ->
            Outcome("none", <<Call("find", "manifests", <<>>, None, APPS_TAGS)>>)
      [] v = "ProfileListAction" ->
            Outcome("none", <<Call("find", "profiles", <<>>, None, PROFILES_TAGS)>>)
      [] v = "RunlistListAction" ->
            Outcome("none", <<Call("find", "runlists", <<>>, None, RUNLISTS_TAGS)>>)
      [] v = "CrashlogListAction" ->
            Outcome("none", <<Call("find", "crashlogs", <<>>, None, s.name)>>)
      [] v = "AppViewAction" ->
            Outcome("none", <<Call("read", "manifests", <<s.name>>, None, None)>>)
      [] v = "ProfileViewAction" ->
            Outcome("none", <<Call("read", "profiles", <<s.name>>, None, None)>>)
      [] v = "RunlistViewAction" ->
            Outcome("none", <<Call("read", "runlists", <<s.name>>, None, None)>>)
      [] v = "ProfileRemoveAction" ->
            Outcome("none", <<Call("remove", "profiles", <<s.name>>, None, None)>>)
      [] v = "RunlistRemoveAction" ->
            Outcome("none", <<Call("remove", "runlists", <<s.name>>, None, None)>>)
      [] v = "AppRemoveAction" ->
            Outcome("none", <<Call("remove", "manifests", <<s.name>>, None, None),
                              Call("remove", "apps", <<s.name>>, None, None)>>)
      [] v = "AppUploadAction" -> AppUploadExecute(s, mf, pf)
      [] v = "ProfileUploadAction" -> ProfileUploadExecute(s, mf)
      [] v = "RunlistUploadAction" -> RunlistUploadExecute(s, mf)
      [] v = "NodeInfoAction" ->
            Outcome("none", <<Call("info", None, <<>>, None, None)>>)
      [] v = "AppStartAction" ->
            Outcome("none", <<Call("start_app", None, <<s.name>>, s.profile, None)>>)
      [] v = "AppPauseAction" ->
            Outcome("none", <<Call("pause_app", None, <<s.name>>, None, None)>>)

HandleVariants == FanInVariants \cup {"AppCheckAction"}
DirectVariants == Variants \ (HandleVariants \cup ChainVariants)

\* ------------------------------------------------------------ crash logs
\* A raw line of the list storage.find delivers is a sequence of tokens: the
\* separator ":" and the pieces of text between separators.
Sep == ":"
NumericTokens == {"100", "200", "300"}

\* The lines storage.find may deliver: "timestamp:identifier" entries, and one
\* line that holds no separator.
Lines ==
    {<<"100", Sep, "a">>, <<"200", Sep, "b">>, <<"300", Sep, "a">>,
     <<"200", Sep, "a">>, <<"100">>}

WellFormed(line) == Len(line) = 3 /\ line[1] \in NumericTokens /\ line[2] = Sep

\* A list chunk: the keys of a storage under one tag, each at most once.
Chunks ==
    UNION {{c \in [1..n -> Lines] : \A i, j \in 1..n : c[i] = c[j] => i = j} :
           n \in 0..MaxEntries}

\* log.split(':'): the fields between the separators.
RECURSIVE split(_)
split(line) ==
    IF line = <<>> THEN <<Empty>>
    ELSE IF Head(line) = Sep THEN <<Empty>> \o split(Tail(line))
    ELSE <<Head(line)>> \o Tail(split(Tail(line)))

\* float(ts) raises ValueError unless ts is a number.
IsNumber(ts) == ts \in NumericTokens
float(ts) == CASE ts = "100" -> 100 [] ts = "200" -> 200 [] ts = "300" -> 300

\* ctime(float(ts) / 1000000): the time of day to the second.
ctime(ts) == <<"ctime", float(ts) \div 1000000>>

\* flt with the timestamp ignored: every entry passes.
fltAll(x, timestamp) == TRUE

\* flt of parseCrashlogs: an exact match, or everything when no timestamp
\* (None or '') is given.
flt(x, timestamp) == IF ~Falsy(timestamp) THEN x = timestamp ELSE TRUE

\* The (ts, ctime, name) tuples of the lines that pass the filter, in order.
RECURSIVE parsed(_, _)
parsed(crashlogs, timestamp) ==
    IF crashlogs = <<>> THEN <<>>
    ELSE LET f == split(Head(crashlogs))
             rest == parsed(Tail(crashlogs), timestamp)
         IN IF flt(f[1], timestamp)
            THEN <<(<<f[1], ctime(f[1]), f[2]>>)>> \o rest
            ELSE rest

\* parseCrashlogs: ValueError when a line does not split into two fields or a
\* timestamp that passes the filter is no number.
parseCrashlogs(crashlogs, timestamp) ==
    IF \E i \in DOMAIN crashlogs :
           \/ Len(split(crashlogs[i])) # 2
           \/ /\ flt(split(crashlogs[i])[1], timestamp)
              /\ ~IsNumber(split(crashlogs[i])[1])
    THEN [exc |-> "ValueError", logs |-> <<>>]
    ELSE [exc |-> "none", logs |-> parsed(crashlogs, timestamp)]

\* key = "%s:%s" % (crashlog[0], crashlog[2])
KeyOf(crashlog) == <<crashlog[1], Sep, crashlog[3]>>

\* The secondary requests onChunk issues for the parsed crash logs:
\* method('crashlogs', key) for each.
Secondary(method, crashlogs) ==
    [i \in DOMAIN crashlogs |->
        Call(method, "crashlogs", KeyOf(crashlogs[i]), None, None)]

\* --------------------------------------------------------------- node info
\* A dict is the set of its (key, value) pairs.
Has(d, k) == \E p \in d : p[1] = k
At(d, k) == (CHOOSE p \in d : p[1] = k)[2]

\* The status snapshots node.info() may deliver for the application "app".
AppEntries ==
    {{}, {<<"state", "running">>}, {<<"profile", "default">>},
     {<<"profile", "default">>, <<"state", "running">>},
     {<<"profile", Empty>>, <<"state", "running">>}}
AppDicts == {{}} \cup {{<<"app", e>>} : e \in AppEntries}
                 \cup {{<<"other", {<<"profile", "default">>, <<"state", "running">>}>>}}
InfoValues == {{}} \cup {{<<"apps", a>>} : a \in AppDicts}

VARIABLES
    variant,    \* the Action class
    config,     \* the **config the caller passes
    phase,      \* "new", "constructed", "ctor_failed", "executed", "exec_failed"
    raised,     \* the exception __init__ or execute() raised, "none" if none
    self,       \* the attributes of the Action
    others,     \* the attributes of the further instances built from config
    heap,       \* the dict objects alive, by address: the caller's and the
                \* **config dict of every __init__ that ran
    refs,       \* the address of the **config dict of each instance built
    calls,      \* the remote calls issued so far, in order, with their futures
    cb, eb, db, \* how often the consumer's callback, errorback, doneback ran
    fired,      \* the handlers of the consumer called, in order, by the latest
                \* event that called any
    bound,        \* the consumer has called bind on the handle execute returned
    messagesLeft, \* Future.messagesLeft of the handle
    listed,       \* the list chunk the find future delivered
    handlerRaised, \* the exception that escaped a handler of the handle
    result,       \* the argument of the last callback of the AppCheck handle
    extra,        \* how many further events futures have delivered
    pc,           \* the step a chain waits in
    profile,      \* the local variable profile of doAction
    chainState,   \* "idle", "running", "done" or "failed"
    chainError,   \* the error a failed chain surfaces
    surfaced,     \* how many errors the chain surfaced
    status,       \* the status node.info() delivered to doAction
    runlist       \* what storage.read delivered to parseRunlist

vars == <<variant, config, phase, raised, self, others, heap, refs, calls, cb, eb, db, fired, bound,
          messagesLeft, listed, handlerRaised, result, extra, pc, profile, chainState,
          chainError, surfaced, status, runlist>>
chain == <<pc, profile, chainState, chainError, surfaced, status, runlist>>
consumer == <<cb, eb, db, fired>>
action == <<variant, config, phase, raised, self, others, heap, refs>>
handle == <<bound, messagesLeft, listed, handlerRaised, result, extra>>

NoError == [type |-> "none", msg |-> "", cause |-> "none"]

Init ==
    /\ variant \in Variants
    /\ config \in Configs(variant)
    /\ phase = "new"
    /\ raised = "none"
    /\ self = NoFields
    /\ others = <<>>
    /\ heap = [a \in {CallerDict} |-> config]
    /\ refs = <<>>
    /\ calls = <<>>
    /\ cb = 0 /\ eb = 0 /\ db = 0
    /\ fired = <<>>
    /\ bound = FALSE
    /\ messagesLeft = 0
    /\ listed = <<>>
    /\ handlerRaised = "none"
    /\ result = <<>>
    /\ extra = 0
    /\ pc = "idle"
    /\ profile = None
    /\ chainState = "idle"
    /\ chainError = NoError
    /\ surfaced = 0
    /\ status = {}
    /\ runlist = None

Construct ==
    /\ phase = "new"
    /\ LET a == NewDict(heap) IN
         /\ heap' = Called(heap, variant, a)
         /\ refs' = Append(refs, a)
         /\ IF Validate(variant, heap'[a]) = "ok"
            THEN /\ phase' = "constructed"
                 /\ self' = FieldsOf(variant, heap'[a])
                 /\ raised' = raised
            ELSE /\ phase' = "ctor_failed"
                 /\ raised' = Validate(variant, heap'[a])
                 /\ self' = self
    /\ UNCHANGED <<variant, config, others, calls, consumer, handle, chain>>

\* The same variant constructed once more from the dict the caller holds.
ConstructAgain ==
    /\ phase = "constructed"
    /\ Len(others) < MaxAgain
    /\ LET a == NewDict(heap) IN
         /\ heap' = Called(heap, variant, a)
         /\ refs' = Append(refs, a)
         /\ others' = Append(others, FieldsOf(variant, heap'[a]))
    /\ UNCHANGED <<variant, config, phase, raised, self, calls, consumer, handle,
                   chain>>

\* execute() of a variant that returns the service's futures; the caller binds
\* its three handlers to each future returned.
ExecuteDirect ==
    /\ phase = "constructed"
    /\ variant \in DirectVariants
    /\ \E mf \in JsonFileStates, pf \in PackageFileStates :
         LET out == DirectExecute(variant, self, mf, pf) IN
           /\ raised' = out.raised
           /\ calls' = out.calls
           /\ phase' = IF out.raised = "none" THEN "executed" ELSE "exec_failed"
    /\ UNCHANGED <<variant, config, self, others, heap, refs, consumer, handle, chain>>

\* ----------------------------------------------- the service's futures
\* A future delivers its result, a chunk or an error, and then signals its
\* completion; the service answers the calls in any order.
Pending(i) == i \in DOMAIN calls /\ calls[i].st = "pending"
Closable(i) == i \in DOMAIN calls /\ calls[i].st # "pending" /\ ~calls[i].closed

Answered(i, answer) == [calls EXCEPT ![i].st = answer]
Closed(i) == [calls EXCEPT ![i].closed = TRUE]

\* The future of a direct variant delivers a chunk to the caller's callback.
DirectChunk ==
    /\ variant \in DirectVariants
    /\ \E i \in DOMAIN calls :
         /\ Pending(i)
         /\ calls' = Answered(i, "chunk")
    /\ cb' = cb + 1
    /\ fired' = <<"callback">>
    /\ UNCHANGED <<action, eb, db, handle, chain>>

DirectError ==
    /\ variant \in DirectVariants
    /\ \E i \in DOMAIN calls :
         /\ Pending(i)
         /\ calls' = Answered(i, "error")
    /\ eb' = eb + 1
    /\ fired' = <<"errorback">>
    /\ UNCHANGED <<action, cb, db, handle, chain>>

DirectDone ==
    /\ variant \in DirectVariants
    /\ \E i \in DOMAIN calls :
         /\ Closable(i)
         /\ calls' = Closed(i)
    /\ db' = db + 1
    /\ fired' = <<"doneback">>
    /\ UNCHANGED <<action, cb, eb, handle, chain>>

\* ------------------------------ CrashlogViewOrRemoveAction.execute.Future
\* onChunk's test for a list with nothing to fetch.
emptyDoneNever(n) == FALSE

emptyDone(n) == n = 0

\* The consumer's handlers onError calls, in the order it calls them.
onErrorCallsDoneFirst == <<"doneback", "errorback">>

onErrorCalls == <<"errorback", "doneback">>

\* execute(): storage.find is issued and the handle built on its future, with
\* messagesLeft = 0 and no callback, errorback or doneback attribute yet.
ExecuteCrashlog ==
    /\ phase = "constructed"
    /\ variant \in FanInVariants
    /\ calls' = <<Call("find", "crashlogs", <<>>, None, self.name)>>
    /\ messagesLeft' = 0
    /\ phase' = "executed"
    /\ UNCHANGED <<variant, config, raised, self, others, heap, refs, consumer, bound, listed,
                   handlerRaised, result, extra, chain>>

\* Future.bind of the handle execute returned: the consumer's handlers become
\* its callback, errorback and doneback attributes.
Bind ==
    /\ phase = "executed"
    /\ variant \in HandleVariants
    /\ ~bound
    /\ bound' = TRUE
    /\ UNCHANGED <<action, calls, consumer, messagesLeft, listed, handlerRaised,
                   result, extra, chain>>

\* Future.onChunk: the find future delivers the list.  The list is parsed and
\* filtered, messagesLeft set, doneback called for an empty result, and one
\* request issued and bound per crash log.  Reading self.doneback or
\* self.callback before bind raises AttributeError: in the loop that is after
\* the first request was issued and before handlers were bound to it.
onChunk ==
    /\ variant \in FanInVariants
    /\ Pending(1)
    /\ \E c \in Chunks :
         LET p == parseCrashlogs(c, self.timestamp)
             n == Len(p.logs)
             reqs == Secondary(self.method, p.logs)
         IN /\ listed' = c
            /\ IF p.exc # "none"
               THEN /\ handlerRaised' = p.exc
                    /\ calls' = Answered(1, "chunk")
                    /\ UNCHANGED <<messagesLeft, db, fired>>
               ELSE /\ messagesLeft' = n
                    /\ IF bound
                       THEN /\ calls' = Answered(1, "chunk") \o reqs
                            /\ db' = IF emptyDone(n) THEN db + 1 ELSE db
                            /\ fired' = IF emptyDone(n)
                                      THEN <<"doneback">>
                                        ELSE fired
                            /\ UNCHANGED handlerRaised
                       ELSE /\ calls' = Answered(1, "chunk") \o
                                   (IF n = 0 THEN <<>>
                                    ELSE <<[reqs[1] EXCEPT !.hooked = FALSE]>>)
                            /\ handlerRaised' = "AttributeError"
                            /\ UNCHANGED <<db, fired>>
    /\ UNCHANGED <<action, cb, eb, bound, result, extra, chain>>

\* Future.onError: the find future delivers an error.
onError ==
    /\ variant \in FanInVariants
    /\ Pending(1)
    /\ calls' = Answered(1, "error")
    /\ IF bound
       THEN /\ eb' = eb + 1
            /\ db' = db + 1
            /\ fired' = onErrorCalls
            /\ UNCHANGED handlerRaised
       ELSE /\ handlerRaised' = "AttributeError"
            /\ UNCHANGED <<eb, db, fired>>
    /\ UNCHANGED <<action, cb, bound, messagesLeft, listed, result, extra, chain>>

\* Future.onDone: the find future signals its completion.
onDone ==
    /\ variant \in FanInVariants
    /\ Closable(1)
    /\ calls' = Closed(1)
    /\ IF bound
       THEN /\ db' = db + 1
            /\ fired' = <<"doneback">>
            /\ UNCHANGED handlerRaised
       ELSE /\ handlerRaised' = "AttributeError"
            /\ UNCHANGED <<db, fired>>
    /\ UNCHANGED <<action, cb, eb, bound, messagesLeft, listed, result, extra, chain>>

\* The wrapper countable(func) after func has run: messagesLeft is decremented
\* and doneback called when it is zero.
countable(left) == [left |-> left - 1, done |-> (left - 1 = 0)]

\* A secondary future delivers its chunk to countable(self.callback).
SecondaryChunk ==
    /\ variant \in FanInVariants
    /\ \E i \in DOMAIN calls :
         /\ i > 1 /\ Pending(i) /\ calls[i].hooked
         /\ calls' = Answered(i, "chunk")
    /\ cb' = cb + 1
    /\ messagesLeft' = countable(messagesLeft).left
    /\ db' = IF countable(messagesLeft).done THEN db + 1 ELSE db
    /\ fired' = <<"callback">> \o
              (IF countable(messagesLeft).done THEN <<"doneback">> ELSE <<>>)
    /\ UNCHANGED <<action, eb, bound, listed, handlerRaised, result, extra, chain>>

\* A secondary future delivers an error to countable(self.errorback).
SecondaryError ==
    /\ variant \in FanInVariants
    /\ \E i \in DOMAIN calls :
         /\ i > 1 /\ Pending(i) /\ calls[i].hooked
         /\ calls' = Answered(i, "error")
    /\ eb' = eb + 1
    /\ messagesLeft' = countable(messagesLeft).left
    /\ db' = IF countable(messagesLeft).done THEN db + 1 ELSE db
    /\ fired' = <<"errorback">> \o
              (IF countable(messagesLeft).done THEN <<"doneback">> ELSE <<>>)
    /\ UNCHANGED <<action, cb, bound, listed, handlerRaised, result, extra, chain>>

\* A secondary future signals its completion to self.doneback, the third
\* handler bound to it.
SecondaryDone ==
    /\ variant \in FanInVariants
    /\ \E i \in DOMAIN calls :
         /\ i > 1 /\ Closable(i) /\ calls[i].hooked
         /\ calls' = Closed(i)
    /\ db' = db + 1
    /\ fired' = <<"doneback">>
    /\ UNCHANGED <<action, cb, eb, handle, chain>>

\* A secondary future that has delivered a chunk delivers a further event
\* before its completion, a chunk or an error: countable(self.callback) or
\* countable(self.errorback) runs again.
SecondaryMore ==
    /\ variant \in FanInVariants
    /\ Len(calls) <= MaxCalls
    /\ extra < MaxExtra
    /\ extra' = extra + 1
    /\ \E i \in DOMAIN calls, answer \in {"chunk", "error"} :
         /\ i > 1 /\ calls[i].st = "chunk" /\ ~calls[i].closed /\ calls[i].hooked
         /\ calls' = Answered(i, answer)
         /\ cb' = IF answer = "chunk" THEN cb + 1 ELSE cb
         /\ eb' = IF answer = "error" THEN eb + 1 ELSE eb
         /\ fired' = <<IF answer = "chunk" THEN "callback" ELSE "errorback">>
                       \o (IF countable(messagesLeft).done
                           THEN <<"doneback">> ELSE <<>>)
    /\ messagesLeft' = countable(messagesLeft).left
    /\ db' = IF countable(messagesLeft).done THEN db + 1 ELSE db
    /\ UNCHANGED <<action, bound, listed, handlerRaised, result, chain>>

\* The find future delivers a further list chunk before its completion:
\* Future.onChunk runs again.
onChunkAgain ==
    /\ variant \in FanInVariants
    /\ Len(calls) >= 1 /\ calls[1].st = "chunk" /\ ~calls[1].closed
    /\ extra < MaxExtra
    /\ extra' = extra + 1
    /\ \E c \in Chunks :
         LET p == parseCrashlogs(c, self.timestamp)
             n == Len(p.logs)
             reqs == Secondary(self.method, p.logs)
         IN /\ Len(calls) + Len(c) <= MaxCalls
            /\ listed' = c
            /\ IF p.exc # "none"
               THEN /\ handlerRaised' = p.exc
                    /\ UNCHANGED <<calls, messagesLeft, db, fired>>
               ELSE /\ messagesLeft' = n
                    /\ IF bound
                       THEN /\ calls' = calls \o reqs
                            /\ db' = IF emptyDone(n) THEN db + 1 ELSE db
                            /\ fired' = IF emptyDone(n)
                                      THEN <<"doneback">>
                                        ELSE fired
                            /\ UNCHANGED handlerRaised
                       ELSE /\ calls' = calls \o
                                   (IF n = 0 THEN <<>>
                                    ELSE <<[reqs[1] EXCEPT !.hooked = FALSE]>>)
                            /\ handlerRaised' = "AttributeError"
                            /\ UNCHANGED <<db, fired>>
    /\ UNCHANGED <<action, cb, eb, bound, result, chain>>

\* The events of a future no handler was bound to reach nobody.
Unhooked ==
    /\ \E i \in DOMAIN calls :
         /\ ~calls[i].hooked
         /\ \/ Pending(i) /\ \E r \in {"chunk", "error"} : calls' = Answered(i, r)
            \/ Closable(i) /\ calls' = Closed(i)
    /\ UNCHANGED <<action, consumer, handle, chain>>

\* --------------------------------------------- AppCheckAction.execute.Future
\* execute(): node.info() is issued and the handle bound to its future with
\* onChunk and onError; no doneback is bound.
ExecuteCheck ==
    /\ phase = "constructed"
    /\ variant = "AppCheckAction"
    /\ calls' = <<Call("info", None, <<>>, None, None)>>
    /\ messagesLeft' = 0
    /\ phase' = "executed"
    /\ UNCHANGED <<variant, config, raised, self, others, heap, refs, consumer, bound, listed,
                   handlerRaised, result, extra, chain>>

\* onChunk reporting 'stopped or missing' whatever the status holds.
StateOfMissing(info, name) == "stopped or missing"

\* The state onChunk reports: the application's state in the status, and
\* 'stopped or missing' when a lookup raises KeyError.
StateOf(info, name) ==
    IF /\ Has(info, "apps")
       /\ Has(At(info, "apps"), name)
       /\ Has(At(At(info, "apps"), name), "state")
    THEN At(At(At(info, "apps"), name), "state")
    ELSE "stopped or missing"

\* Future.onChunk of the AppCheck handle.
CheckOnChunk ==
    /\ variant = "AppCheckAction"
    /\ Pending(1)
    /\ calls' = Answered(1, "chunk")
    /\ \E info \in InfoValues :
         /\ status' = info
         /\ IF bound
            THEN /\ cb' = cb + 1
                 /\ fired' = <<"callback">>
                 /\ result' = <<self.name, StateOf(info, self.name)>>
                 /\ UNCHANGED handlerRaised
            ELSE /\ handlerRaised' = "AttributeError"
                 /\ UNCHANGED <<cb, fired, result>>
    /\ UNCHANGED <<action, eb, db, bound, messagesLeft, listed, extra, pc, profile,
                   chainState, chainError, surfaced, runlist>>

\* Future.onError of the AppCheck handle.
CheckOnError ==
    /\ variant = "AppCheckAction"
    /\ Pending(1)
    /\ calls' = Answered(1, "error")
    /\ IF bound
       THEN /\ eb' = eb + 1
            /\ fired' = <<"errorback">>
            /\ UNCHANGED handlerRaised
       ELSE /\ handlerRaised' = "AttributeError"
            /\ UNCHANGED <<eb, fired>>
    /\ UNCHANGED <<action, cb, db, bound, messagesLeft, listed, result, extra, chain>>

\* The info future signals its completion: the handle bound no handler for it.
CheckDone ==
    /\ variant = "AppCheckAction"
    /\ Closable(1)
    /\ calls' = Closed(1)
    /\ UNCHANGED <<action, consumer, handle, chain>>

\* ------------------------------------------------------------------ Chain
\* ChainFactory().then(step)...: the steps run in order; a step that yields or
\* returns a future suspends the chain until the future delivers its result;
\* an error the future delivers is raised inside the step that reads the
\* result; an error that leaves a step fails the chain, which surfaces it once
\* and runs no further step.
\* The chain comes from cocaine.futures.chain, which tools.py imports, and
\* knows no ToolsError: that class is defined in tools.py and raised by
\* doAction alone, so a failed chain surfaces the error as the step raised it.
Error(type, msg, cause) == [type |-> type, msg |-> msg, cause |-> cause]

\* The error the service delivers for a call.
RemoteError(method) ==
    CASE method = "info" -> "RemoteError: info"
      [] method = "pause_app" -> "RemoteError: pause_app"
      [] method = "start_app" -> "RemoteError: start_app"
      [] method = "read" -> "RemoteError: read"
      [] method = "write" -> "RemoteError: write"

ChainFail(e) ==
    /\ chainState' = "failed"
    /\ chainError' = e
    /\ surfaced' = surfaced + 1
    /\ pc' = "stopped"

ChainComplete ==
    /\ chainState' = "done"
    /\ pc' = "stopped"
    /\ UNCHANGED <<chainError, surfaced>>

\* A step's generator ends: with the error it raises, or by returning.
ChainEnd(e) == IF e.type = "none" THEN ChainComplete ELSE ChainFail(e)

\* The futures of a chain's calls signal their completion after their result.
ChainFutureDone ==
    /\ variant \in ChainVariants
    /\ \E i \in DOMAIN calls :
         /\ Closable(i)
         /\ calls' = Closed(i)
    /\ UNCHANGED <<action, consumer, handle, chain>>

\* ------------------------------------------------------- AppRestartAction
NotRunning == "is not running and profile not specified"
Unknown == "Unknown error"

\* doAction with an except clause that swallows what is no KeyError.
doActionExceptSwallow(exc) ==
    IF exc = "KeyError" THEN Error("ToolsError", NotRunning, exc)
    ELSE NoError

\* The except clauses of doAction: KeyError becomes the ToolsError 'not
\* running and profile not specified', any other exception the ToolsError
\* 'Unknown error - ...'.
doActionExcept(exc) ==
    IF exc = "KeyError" THEN Error("ToolsError", NotRunning, exc)
    ELSE Error("ToolsError", Unknown, exc)

\* The profile looked up with a default in place of the KeyError.
resolveProfileDefault(selfProfile, info, name) ==
    IF ~Falsy(selfProfile) THEN [exc |-> "none", profile |-> selfProfile]
    ELSE IF /\ Has(info, "apps")
            /\ Has(At(info, "apps"), name)
            /\ Has(At(At(info, "apps"), name), "profile")
         THEN [exc |-> "none",
               profile |-> At(At(At(info, "apps"), name), "profile")]
         ELSE [exc |-> "none", profile |-> "default"]

\* The profile taken from the status when it has one, and from self.profile
\* only otherwise.
resolveProfileStatusFirst(selfProfile, info, name) ==
    IF /\ Has(info, "apps")
       /\ Has(At(info, "apps"), name)
       /\ Has(At(At(info, "apps"), name), "profile")
    THEN [exc |-> "none",
          profile |-> At(At(At(info, "apps"), name), "profile")]
    ELSE IF ~Falsy(selfProfile) THEN [exc |-> "none", profile |-> selfProfile]
    ELSE [exc |-> "KeyError", profile |-> None]

\* profile = self.profile or info['apps'][self.name]['profile']
resolveProfile(selfProfile, info, name) ==
    IF ~Falsy(selfProfile) THEN [exc |-> "none", profile |-> selfProfile]
    ELSE IF /\ Has(info, "apps")
            /\ Has(At(info, "apps"), name)
            /\ Has(At(At(info, "apps"), name), "profile")
         THEN [exc |-> "none",
               profile |-> At(At(At(info, "apps"), name), "profile")]
         ELSE [exc |-> "KeyError", profile |-> None]

\* appStartConfig of doAction: self.config['host'] and self.config['port']
\* raise KeyError when the caller passed none.
appStartConfig(cfg, name, prof) ==
    IF cfg["host"] = Absent \/ cfg["port"] = Absent
    THEN [exc |-> "KeyError", config |-> cfg]
    ELSE [exc |-> "none",
          config |-> [k \in Keys |->
                        CASE k = "host" -> cfg["host"]
                          [] k = "port" -> cfg["port"]
                          [] k = "name" -> name
                          [] k = "profile" -> prof
                          [] OTHER -> Absent]]

\* execute(): the chain starts doAction, which issues node.info() and waits.
ExecuteRestart ==
    /\ phase = "constructed"
    /\ variant = "AppRestartAction"
    /\ calls' = <<Call("info", None, <<>>, None, None)>>
    /\ phase' = "executed"
    /\ pc' = "info"
    /\ chainState' = "running"
    /\ UNCHANGED <<variant, config, raised, self, others, heap, refs, consumer, handle, profile,
                   chainError, surfaced, status, runlist>>

\* info resolves: with an error, or with a status from which the profile is
\* taken before pause_app is issued.
RestartInfo ==
    /\ variant = "AppRestartAction"
    /\ pc = "info"
    /\ Pending(1)
    /\ \/ /\ calls' = Answered(1, "error")
          /\ ChainEnd(doActionExcept(RemoteError("info")))
          /\ UNCHANGED <<profile, status>>
       \/ \E info \in InfoValues :
            LET r == resolveProfile(self.profile, info, self.name) IN
              /\ status' = info
              /\ IF r.exc # "none"
                 THEN /\ calls' = Answered(1, "chunk")
                      /\ ChainEnd(doActionExcept(r.exc))
                      /\ UNCHANGED profile
                 ELSE /\ profile' = r.profile
                      /\ calls' = Answered(1, "chunk") \o
                             <<Call("pause_app", None, <<self.name>>, None, None)>>
                      /\ pc' = "pause"
                      /\ UNCHANGED <<chainState, chainError, surfaced>>
    /\ UNCHANGED <<action, consumer, handle, runlist>>

\* pause_app resolves: with an error, or the start configuration is built, an
\* AppStartAction constructed from it and start_app issued.
RestartPause ==
    /\ variant = "AppRestartAction"
    /\ pc = "pause"
    /\ Pending(2)
    /\ \/ /\ calls' = Answered(2, "error")
          /\ ChainEnd(doActionExcept(RemoteError("pause_app")))
       \/ LET c == appStartConfig(self.config, self.name, profile) IN
            IF c.exc # "none"
            THEN /\ calls' = Answered(2, "chunk")
                 /\ ChainEnd(doActionExcept(c.exc))
            ELSE IF Validate("AppStartAction", c.config) # "ok"
            THEN /\ calls' = Answered(2, "chunk")
                 /\ ChainEnd(doActionExcept(Validate("AppStartAction", c.config)))
            ELSE /\ calls' = Answered(2, "chunk") \o
                        <<Call("start_app", None, <<self.name>>,
                               FieldsOf("AppStartAction", c.config).profile, None)>>
                 /\ pc' = "start"
                 /\ UNCHANGED <<chainState, chainError, surfaced>>
    /\ UNCHANGED <<action, consumer, handle, profile, status, runlist>>

\* start_app resolves: with an error, or doAction yields the two results
\* and is suspended once more.
RestartStart ==
    /\ variant = "AppRestartAction"
    /\ pc = "start"
    /\ Pending(3)
    /\ \/ /\ calls' = Answered(3, "error")
          /\ ChainEnd(doActionExcept(RemoteError("start_app")))
       \/ /\ calls' = Answered(3, "chunk")
          /\ pc' = "join"
          /\ UNCHANGED <<chainState, chainError, surfaced>>
    /\ UNCHANGED <<action, consumer, handle, profile, status, runlist>>

\* The chain resumes doAction after its last yield: the generator returns and
\* the chain ends.
RestartJoin ==
    /\ variant = "AppRestartAction"
    /\ pc = "join"
    /\ ChainEnd(NoError)
    /\ UNCHANGED <<action, calls, consumer, handle, profile, status, runlist>>

\* ------------------------------------------ AddApplicationToRunlistAction
\* What storage.read may deliver for the runlist: a packed dict, bytes that
\* msgpack cannot unpack, a packed value that is no dict.
ReadResults == {"dict", "garbage", "list"}

\* parseRunlist starting from an empty runlist when the read gave none.
parseRunlistFresh(answer) ==
    IF answer = "garbage" THEN [exc |-> "UnpackException", runlist |-> None]
    ELSE [exc |-> "none", runlist |-> "merged"]

\* parseRunlist: result.get() raises the error of a failed read,
\* msgpack.loads raises on garbage and runlist[self.app] = ... on a value
\* that takes no string key.
parseRunlist(answer) ==
    CASE answer = "error" -> [exc |-> RemoteError("read"), runlist |-> None]
      [] answer = "garbage" -> [exc |-> "UnpackException", runlist |-> None]
      [] answer = "list" -> [exc |-> "TypeError", runlist |-> None]
      [] answer = "dict" -> [exc |-> "none", runlist |-> "merged"]

\* The configuration uploadRunlist constructs its RunlistUploadAction with.
uploadRunlistConfig(name, merged) ==
    [k \in Keys |-> CASE k = "name" -> name
                      [] k = "runlist-raw" -> merged
                      [] OTHER -> Absent]

\* execute(): the chain of getRunlist, parseRunlist, uploadRunlist starts;
\* getRunlist issues the read of a RunlistViewAction.
ExecuteAddToRunlist ==
    /\ phase = "constructed"
    /\ variant = "AddApplicationToRunlistAction"
    /\ calls' = DirectExecute("RunlistViewAction", self, "ok", "ok").calls
    /\ phase' = "executed"
    /\ pc' = "getRunlist"
    /\ chainState' = "running"
    /\ UNCHANGED <<variant, config, raised, self, others, heap, refs, consumer, handle, profile,
                   chainError, surfaced, status, runlist>>

\* The read resolves and the chain calls parseRunlist, which merges the
\* application in and returns the runlist to the chain.
RunlistRead ==
    /\ variant = "AddApplicationToRunlistAction"
    /\ pc = "getRunlist"
    /\ Pending(1)
    /\ \E answer \in {"error"} \cup ReadResults :
         LET r == parseRunlist(answer)
         IN /\ runlist' = answer
            /\ calls' = Answered(1, IF answer = "error" THEN "error" ELSE "chunk")
            /\ IF r.exc # "none"
               THEN ChainFail(Error(r.exc, "", r.exc))
               ELSE /\ pc' = "parseRunlist"
                    /\ UNCHANGED <<chainState, chainError, surfaced>>
    /\ UNCHANGED <<action, consumer, handle, profile, status>>

\* The chain calls uploadRunlist with the runlist parseRunlist returned: a
\* RunlistUploadAction is constructed and its write issued.
RunlistUpload ==
    /\ variant = "AddApplicationToRunlistAction"
    /\ pc = "parseRunlist"
    /\ LET c == uploadRunlistConfig(self.name, parseRunlist(runlist).runlist)
           out == RunlistUploadExecute(FieldsOf("RunlistUploadAction", c), "ok")
       IN IF Validate("RunlistUploadAction", c) # "ok"
          THEN /\ ChainFail(Error("ValueError", "", "ValueError"))
               /\ UNCHANGED calls
          ELSE /\ calls' = calls \o out.calls
               /\ pc' = "uploadRunlist"
               /\ UNCHANGED <<chainState, chainError, surfaced>>
    /\ UNCHANGED <<action, consumer, handle, profile, status, runlist>>

\* The write resolves and the chain ends.
RunlistWrite ==
    /\ variant = "AddApplicationToRunlistAction"
    /\ pc = "uploadRunlist"
    /\ Pending(2)
    /\ \/ /\ calls' = Answered(2, "error")
          /\ ChainFail(Error(RemoteError("write"), "", RemoteError("write")))
       \/ /\ calls' = Answered(2, "chunk")
          /\ ChainComplete
    /\ UNCHANGED <<action, consumer, handle, profile, status, runlist>>

Next ==
    \/ Construct
    \/ ExecuteDirect
    \/ DirectChunk
    \/ DirectError
    \/ DirectDone
    \/ ExecuteCrashlog
    \/ Bind
    \/ onChunk
    \/ onError
    \/ onDone
    \/ SecondaryChunk
    \/ SecondaryError
    \/ SecondaryDone
    \/ Unhooked
    \/ ExecuteCheck
    \/ CheckOnChunk
    \/ CheckOnError
    \/ CheckDone
    \/ ChainFutureDone
    \/ ExecuteRestart
    \/ RestartInfo
    \/ RestartPause
    \/ RestartStart
    \/ RestartJoin
    \/ ExecuteAddToRunlist
    \/ RunlistRead
    \/ RunlistUpload
    \/ RunlistWrite

Spec == Init /\ [][Next]_vars

\* Constructions alone: an instance, then further instances from the same
\* configuration.
NextConstruct ==
    \/ Construct
    \/ ConstructAgain

SpecConstruct == Init /\ [][NextConstruct]_vars

\* The crash-log fan-in with futures that deliver zero or more chunks and at
\* most one error before their completion.
InitMulti == Init /\ variant \in FanInVariants

NextMulti ==
    \/ Construct
    \/ ExecuteCrashlog
    \/ Bind
    \/ onChunk
    \/ onChunkAgain
    \/ onError
    \/ onDone
    \/ SecondaryChunk
    \/ SecondaryError
    \/ SecondaryMore
    \/ SecondaryDone
    \/ Unhooked

SpecMulti == InitMulti /\ [][NextMulti]_vars
\* ================================================================ claims
\* Every call issued has delivered its result and signalled its completion.
Quiescent == phase = "executed" /\ \A i \in DOMAIN calls : calls[i].closed

IsFanIn == variant \in FanInVariants
IsRestart == variant = "AppRestartAction"
IsAddToRunlist == variant = "AddApplicationToRunlistAction"

\* C1: for the handle of CrashlogViewOrRemoveAction.execute, when the find
\* future and every secondary future have delivered their result and their
\* completion signal to bound handlers, the consumer's doneback has run
\* exactly once.
C1_DonebackExactlyOnce ==
    (IsFanIn /\ Quiescent /\ handlerRaised = "none") => db = 1

\* C2: for the handle of CrashlogViewOrRemoveAction.execute, once the
\* consumer's doneback has run, its callback and errorback never run again.
C2_DonebackIsLast ==
    [][(IsFanIn /\ db > 0) => (cb' = cb /\ eb' = eb)]_vars

\* C3: for a future or handle returned by execute, when the service has
\* finished every call and an error reached the consumer's errorback, the
\* consumer's doneback has run as well.
C3_ErrorPairedWithDone ==
    (variant \in DirectVariants \cup HandleVariants /\ Quiescent /\ eb > 0)
        => db > 0

\* The lines of the list with the timestamp t, all of them when no filter
\* value is given.
Matching(list, t) ==
    SelectSeq(list, LAMBDA line : Falsy(t) \/ line[1] = t)

\* The filter value of the action: the 'manifest' entry the caller passed,
\* none for CrashlogRemoveAllAction.
FilterValue ==
    IF variant = "CrashlogRemoveAllAction" THEN None ELSE Get(config, "manifest")

\* C4: once a list chunk of "timestamp:identifier" entries has been handled
\* with the consumer's handlers bound, the secondary requests issued are, in
\* the order of the list, exactly one per entry whose timestamp equals the
\* filter value (every entry when there is none), each with the action's
\* method in namespace 'crashlogs' and the entry's own line as its key.
C4_OneRequestPerFilteredEntry ==
    (/\ IsFanIn
     /\ Len(calls) > 0
     /\ calls[1].st = "chunk"
     /\ \A i \in DOMAIN listed : WellFormed(listed[i])
     /\ handlerRaised = "none")
    => /\ Len(calls) = 1 + Len(Matching(listed, FilterValue))
       /\ \A i \in DOMAIN Matching(listed, FilterValue) :
            /\ calls[i + 1].key = Matching(listed, FilterValue)[i]
            /\ calls[i + 1].ns = "crashlogs"
            /\ calls[i + 1].method = MethodOf(variant)

\* Timestamps 100, 200, 300 with the filter 200: one request, keyed 200:b.
C4_Witness ==
    /\ IsFanIn
    /\ listed = <<(<<"100", Sep, "a">>), (<<"200", Sep, "b">>),
                  (<<"300", Sep, "a">>)>>
    /\ FilterValue = "200"
    /\ handlerRaised = "none"
    /\ Len(calls) = 2
    /\ calls[2].key = <<"200", Sep, "b">>

\* C5: an Action that was constructed never fails in execute() because a
\* parameter it needs is missing: here the chain of AppRestartAction never
\* fails on the KeyError of self.config['host'] or self.config['port'].
C5_NoMissingParameterAtExecute ==
    ~(/\ IsRestart
      /\ phase = "executed"
      /\ chainState = "failed"
      /\ chainError.cause = "KeyError"
      /\ Len(calls) = 2
      /\ (self.config["host"] = Absent \/ self.config["port"] = Absent))

\* The status has an entry for the application.
HasApp(info, name) == Has(info, "apps") /\ Has(At(info, "apps"), name)

\* C6: in the AppRestartAction chain, when info() has delivered a status
\* without an entry for the application and no profile was supplied, the
\* chain has failed with the one ToolsError 'is not running and profile not
\* specified', and info is the only call issued to the node.
C6_NotRunningNoProfile ==
    (/\ IsRestart
     /\ Len(calls) > 0
     /\ calls[1].st = "chunk"
     /\ Falsy(Get(config, "profile"))
     /\ ~HasApp(status, Get(config, "name")))
    => /\ chainState = "failed"
       /\ chainError = Error("ToolsError", NotRunning, "KeyError")
       /\ surfaced = 1
       /\ Len(calls) = 1
       /\ \A i \in DOMAIN calls : calls[i].method \notin {"pause_app", "start_app"}

C6_Witness ==
    /\ IsRestart
    /\ Len(calls) = 1
    /\ calls[1].st = "chunk"
    /\ Falsy(Get(config, "profile"))
    /\ status = {<<"apps", {}>>}
    /\ chainState = "failed"

Writes == {i \in DOMAIN calls : calls[i].method = "write"}

\* C7: in the AddApplicationToRunlistAction chain, a failed read or a merge
\* that raises fails the chain with exactly one error and no storage.write;
\* storage.write is issued only after the read delivered a runlist, and at
\* most once.
C7_ShortCircuit ==
    IsAddToRunlist =>
      /\ (Len(calls) > 0 /\ calls[1].st # "pending" /\ runlist # "dict")
            => (chainState = "failed" /\ surfaced = 1 /\ Writes = {})
      /\ Writes # {} => (calls[1].st = "chunk" /\ runlist = "dict")
      /\ Cardinality(Writes) <= 1
      /\ surfaced <= 1

C7_Witness ==
    /\ IsAddToRunlist
    /\ Len(calls) = 1
    /\ calls[1].st = "chunk"
    /\ runlist = "list"
    /\ chainState = "failed"
    /\ chainError.type = "TypeError"

\* C8: when execute of an upload variant raises the error of a payload that
\* cannot be encoded, no call at all has been issued to the storage.
C8_PayloadErrorBeforeAnyCall ==
    raised \in CocaineErrors => (calls = <<>> /\ phase = "exec_failed")

\* The manifest was encoded and the package is no tar file.
C8_Witness ==
    /\ variant = "AppUploadAction"
    /\ raised = "CocaineError: File is ot tar file"

\* C9: a chain that fails surfaces a single ToolsError.
C9_ChainFailsWithToolsError ==
    chainState = "failed" => (chainError.type = "ToolsError" /\ surfaced = 1)

StopFailed == Len(calls) >= 2 /\ calls[2].st = "error"
StartFailed == Len(calls) >= 3 /\ calls[3].st = "error"

\* C10: the AppRestartAction chain completes only when pause_app and
\* start_app have both delivered their result, and when one of the two has
\* failed the chain has failed with the one ToolsError made of that
\* operation's error.
C10_JoinStopStart ==
    IsRestart =>
      /\ chainState = "done"
            => /\ Len(calls) = 3
               /\ calls[2].method = "pause_app" /\ calls[2].st = "chunk"
               /\ calls[3].method = "start_app" /\ calls[3].st = "chunk"
      /\ StopFailed
            => /\ chainState = "failed" /\ surfaced = 1
               /\ chainError = Error("ToolsError", Unknown, RemoteError("pause_app"))
      /\ StartFailed
            => /\ chainState = "failed" /\ surfaced = 1
               /\ chainError = Error("ToolsError", Unknown, RemoteError("start_app"))

\* pause_app succeeded and start_app failed.
C10_Witness ==
    /\ IsRestart
    /\ Len(calls) = 3
    /\ calls[2].st = "chunk"
    /\ calls[3].st = "error"
    /\ chainState = "failed"
\* The remote operation a call stands for.
Operation(c) == <<c.method, c.ns, c.key>>

TwoCallVariants == {"AppUploadAction", "AppRemoveAction"}

\* C11: execute() performs no local retry: once execute has returned, a
\* single-operation variant has issued one call, AppUploadAction and
\* AppRemoveAction two, a crash-log view/remove one find plus one request per
\* filtered entry; no operation is issued twice; and no step issues a call
\* after a call has delivered an error.
C11_NoLocalRetry ==
    /\ []((variant \in DirectVariants /\ phase = "executed")
            => Len(calls) = IF variant \in TwoCallVariants THEN 2 ELSE 1)
    /\ []((IsFanIn /\ phase = "executed")
            => /\ Len(calls) >= 1
               /\ Len(calls) <= 1 + Len(Matching(listed, FilterValue))
               /\ (calls[1].st = "chunk" /\ handlerRaised = "none")
                    => Len(calls) = 1 + Len(Matching(listed, FilterValue)))
    /\ [](\A i, j \in DOMAIN calls :
              Operation(calls[i]) = Operation(calls[j]) => i = j)
    /\ [][(\E i \in DOMAIN calls : calls[i].st = "error")
            => Len(calls') = Len(calls)]_vars

C11_Witness ==
    /\ variant = "AppUploadAction"
    /\ Len(calls) = 2
    /\ calls[1].st = "error"
    /\ calls[2].st = "chunk"
    /\ calls[1].closed /\ calls[2].closed

\* C12: the dict the caller passed still holds what the caller put in it
\* after every construction; every instance got a dict of its own, distinct
\* from the caller's and from every other instance's; every further instance
\* built from the caller's dict has the validated fields of the first; the
\* dict a node action keeps holds the caller's entries, and the one a
\* CrashlogRemoveAllAction worked on has 'manifest' None.
C12_ConstructionIdempotent ==
    /\ heap[CallerDict] = config
    /\ \A i \in DOMAIN refs :
         /\ refs[i] # CallerDict
         /\ \A j \in DOMAIN refs : refs[i] = refs[j] => i = j
         /\ variant \in NodeVariants => heap[refs[i]] = config
         /\ variant = "CrashlogRemoveAllAction"
              => heap[refs[i]] = [config EXCEPT !["manifest"] = None]
    /\ \A i \in DOMAIN others : others[i] = self
    /\ phase = "constructed" =>
         /\ self.name = (IF "name" \in Reads(variant)
                         THEN Get(config, "name") ELSE None)
         /\ variant \in NodeVariants => self.config = config
         /\ variant = "CrashlogRemoveAllAction" => self.timestamp = None

C12_Witness ==
    /\ variant = "CrashlogRemoveAllAction"
    /\ config["manifest"] = "200"
    /\ Len(others) = MaxAgain
    /\ heap[refs[1]]["manifest"] = None
    /\ self.timestamp = None

\* C13: the handle's messagesLeft is never negative and, once the list chunk
\* has set it, no step raises it, also when a secondary future delivers a
\* further event or the find future a further chunk.
C13_OutstandingOnlyDecreases ==
    /\ [](messagesLeft >= 0)
    /\ [][(IsFanIn /\ Len(calls) >= 1 /\ calls[1].st = "chunk")
            => messagesLeft' <= messagesLeft]_vars

\* C14: when the find future's list chunk is handled with the consumer's
\* handlers bound and no entry of it passes the filter, that very step issues
\* no secondary request and calls the consumer's doneback.
C14_EmptyListDoneAtOnce ==
    [][(/\ IsFanIn /\ bound
        /\ Len(calls) = 1 /\ calls[1].st = "pending"
        /\ Len(calls') >= 1 /\ calls'[1].st = "chunk"
        /\ handlerRaised' = "none"
        /\ Matching(listed', FilterValue) = <<>>)
       => /\ Len(calls') = 1
          /\ db' = db + 1
          /\ fired' = <<"doneback">>]_vars

C14_Witness ==
    /\ IsFanIn /\ bound /\ handlerRaised = "none"
    /\ FilterValue = "400"
    /\ Len(listed) = 2
    /\ Len(calls) = 1 /\ calls[1].st = "chunk" /\ ~calls[1].closed
    /\ fired = <<"doneback">>

\* C15: whenever a step calls the consumer's doneback after the list chunk
\* was handled with the handlers bound, every secondary request issued has
\* delivered its result to callback or errorback: the results forwarded are
\* as many as the secondary requests.
C15_DoneAfterEverySecondary ==
    [][(/\ IsFanIn /\ handlerRaised' = "none"
        /\ Len(calls') >= 1 /\ calls'[1].st = "chunk"
        /\ db' > db)
       => cb' + eb' = Len(calls') - 1]_vars

\* C16: no handler of the consumer runs before the find future's result;
\* when the find future delivers an error to the bound handle, that step
\* calls the consumer's errorback and then its doneback and issues no request;
\* afterwards the errorback has run exactly once, no callback has, and the
\* find call is still the only call.
C16_UpstreamErrorForwardedOnce ==
    /\ [][(/\ IsFanIn /\ bound
           /\ Len(calls) = 1 /\ calls[1].st = "pending"
           /\ Len(calls') >= 1 /\ calls'[1].st = "error")
          => /\ fired' = <<"errorback", "doneback">>
             /\ eb' = 1 /\ db' = 1
             /\ Len(calls') = 1]_vars
    /\ []((IsFanIn /\ Len(calls) = 1 /\ calls[1].st = "pending")
            => (cb = 0 /\ eb = 0 /\ db = 0))
    /\ []((IsFanIn /\ Len(calls) >= 1 /\ calls[1].st = "error")
            => /\ Len(calls) = 1
               /\ cb = 0
               /\ handlerRaised = "none"
                    => eb = 1)

C16_Witness ==
    /\ IsFanIn /\ bound
    /\ Len(calls) = 1 /\ calls[1].st = "error" /\ ~calls[1].closed
    /\ fired = <<"errorback", "doneback">>
    /\ eb = 1 /\ db = 1

\* C17: once the consumer has bound its handlers to the handle of a crash-log
\* view/remove or of AppCheckAction, no event of the upstream future has
\* raised in the handle for want of a handler, and the upstream's result has
\* reached the consumer: its chunk the callback of the AppCheck handle, its
\* error the errorback.
C17_LateBindReplaysEvents ==
    (variant \in HandleVariants /\ bound /\ Len(calls) >= 1)
        => /\ handlerRaised # "AttributeError"
           /\ calls[1].st = "error" => eb = 1
           /\ (variant = "AppCheckAction" /\ calls[1].st = "chunk") => cb = 1

RestartOrder == <<"info", "pause_app", "start_app">>

\* The profile the status holds for the application, None when it holds none.
StatusProfile(info, name) ==
    IF HasApp(info, name) /\ Has(At(At(info, "apps"), name), "profile")
    THEN At(At(At(info, "apps"), name), "profile")
    ELSE None

\* C18: the calls of the AppRestartAction chain are, in order, a prefix of
\* info, pause_app, start_app; pause_app is there only when info delivered its
\* status, start_app only when pause_app delivered its result; and start_app
\* carries the profile the caller supplied, or else the one the status holds
\* for the application.
C18_RestartCallOrder ==
    IsRestart =>
        /\ Len(calls) <= 3
        /\ \A i \in DOMAIN calls : calls[i].method = RestartOrder[i]
        /\ Len(calls) >= 2 => calls[1].st = "chunk"
        /\ Len(calls) >= 3 => calls[2].st = "chunk"
        /\ Len(calls) = 3 =>
             calls[3].payload =
                IF ~Falsy(Get(config, "profile")) THEN Get(config, "profile")
                ELSE StatusProfile(status, Get(config, "name"))

C18_Witness ==
    /\ IsRestart
    /\ Len(calls) = 3
    /\ Falsy(Get(config, "profile"))
    /\ calls[3].payload = "default"
    /\ calls[3].st = "chunk"

\* C19: whenever the AppRestartAction chain has failed with 'is not running
\* and profile not specified', the caller supplied no profile, the status
\* info() delivered holds no profile for the application, and info is the
\* only call issued: neither pause_app nor start_app.
C19_NotRunningOnlyBeforeStop ==
    (IsRestart /\ chainState = "failed" /\ chainError.msg = NotRunning)
        => /\ Len(calls) = 1
           /\ Falsy(Get(config, "profile"))
           /\ StatusProfile(status, Get(config, "name")) = None

\* C20: for the AppCheckAction handle with the consumer's handlers bound in
\* time, a status chunk of node.info() has led to one callback, with the
\* application's name and its state in the status, 'stopped or missing' when
\* the status lacks the application or its state, and to no errorback; an
\* error has led to one errorback and no callback; before either, neither ran.
C20_CheckReportsState ==
    (variant = "AppCheckAction" /\ Len(calls) = 1 /\ handlerRaised = "none")
        => /\ calls[1].st = "pending" => (cb = 0 /\ eb = 0)
           /\ calls[1].st = "error" => (cb = 0 /\ eb = 1)
           /\ calls[1].st = "chunk" =>
                /\ cb = 1 /\ eb = 0
                /\ result[1] = Get(config, "name")
                /\ \/ /\ HasApp(status, result[1])
                      /\ <<"state", result[2]>> \in At(At(status, "apps"), result[1])
                   \/ /\ result[2] = "stopped or missing"
                      /\ \/ ~HasApp(status, result[1])
                         \/ ~Has(At(At(status, "apps"), result[1]), "state")
           /\ db = 0

C20_Witness ==
    /\ variant = "AppCheckAction"
    /\ Len(calls) = 1 /\ calls[1].st = "chunk" /\ calls[1].closed
    /\ result = <<"app", "running">>
    /\ cb = 1

====
